---------------------------- MODULE Spec2Model ----------------------------
(***************************************************************************)
(* Wallet provisioning of buypower_admin: the Client Wallet write pipeline *)
(* (before_insert / validate / before_save), the wallet_created webhook    *)
(* handler client_wallet(), create_bulk_wallets() and set_primary_wallet().*)
(*                                                                         *)
(* Text values that the code inspects character by character (the BVN, the *)
(* derived wallet_id) are sequences of one-character strings.  Python's    *)
(* None for such a value is the one-element sequence NoneText, which no    *)
(* input text equals.  Keys that a dict lacks carry the string Absent.     *)
(***************************************************************************)
EXTENDS Integers, Sequences, FiniteSets, TLC

VARIABLES
    wallets,    \* the rows of `tabClient Wallet`
    nextName,   \* the next document name the datastore hands out
    issued,     \* per site: the wallet_sequence values handed out, in time order
    op,         \* the operation that ran last and the rows it deleted and inserted
    request,    \* its arguments
    response,   \* what the operation returned
    inflight    \* per concurrent request: the insert it is in the middle of

vars == <<wallets, nextName, issued, op, request, response, inflight>>

---------------------------------------------------------------------------
(* Bounds *)

MaxDocs == 3        \* documents ever inserted in one behaviour
MaxBulk == 2        \* items in one create_bulk_wallets call

(* Program constants *)

BvnLen == 11

---------------------------------------------------------------------------
(* Values *)

Sites == {"shop1", "shop2"}
WalletNames == {"Main", "Second"}
Absent == "<absent>"
NoneText == <<"<None>">>
EmptyText == << >>
Digits == {"0", "1", "2", "3", "4", "5", "6", "7", "8", "9"}

Bvn14Dashed == <<"1","2","3","-","4","5","6","-","7","8","9","-","0","1">>
Bvn10 == <<"1","2","3","4","5","6","7","8","9","0">>
Bvn11 == <<"1","2","3","4","5","6","7","8","9","0","1">>
Bvn11Letter == <<"1","2","3","4","5","6","7","8","9","0","a">>
Masked == <<"*","*","*","m","a","s","k","e","d","*","*","*">>

\* Python truthiness of a text value or None
Truthy(t) == t # NoneText /\ Len(t) > 0

IsDigit(c) == c \in Digits

\* ''.join(filter(str.isdigit, str(bvn)))
StripNonDigits(t) == SelectSeq(t, IsDigit)

AllDigits(t) == \A i \in 1..Len(t) : IsDigit(t[i])

DigitChar(d) ==
    CASE d = 0 -> "0" [] d = 1 -> "1" [] d = 2 -> "2" [] d = 3 -> "3"
      [] d = 4 -> "4" [] d = 5 -> "5" [] d = 6 -> "6" [] d = 7 -> "7"
      [] d = 8 -> "8" [] d = 9 -> "9"

RECURSIVE Decimal(_)
\* str(n) for n >= 0
Decimal(n) == IF n < 10 THEN <<DigitChar(n)>>
              ELSE Decimal(n \div 10) \o <<DigitChar(n % 10)>>

RECURSIVE ZeroPad(_, _)
\* format(n, "05d"): left-pad with zeros up to the width, never truncate
ZeroPad(t, width) == IF Len(t) >= width THEN t ELSE ZeroPad(<<"0">> \o t, width)

\* a variant without the zero padding
DerivedWalletIdUnpadded(site, seq) == <<"WLT-", site, "-">> \o Decimal(seq)

\* f"WLT-{site_name}-{wallet_sequence:05d}"
DerivedWalletId(site, seq) == <<"WLT-", site, "-">> \o ZeroPad(Decimal(seq), 5)

SuppliedWalletId == <<"EXT-9">>

---------------------------------------------------------------------------
(* The datastore *)

BySite(tbl, site) == {w \in tbl : w.site_name = site}

Names(tbl) == {w.name : w \in tbl}

Row(tbl, name) == CHOOSE w \in tbl : w.name = name

SetMax(S) == CHOOSE x \in S : \A y \in S : y <= x

\* A document as frappe.new_doc / frappe.get_doc(dict) builds it
NewDoc(site, wname, bvn, wid, attrs, primary) ==
    [name |-> 0, site_name |-> site, wallet_name |-> wname, bvn |-> bvn,
     wallet_id |-> wid, attrs |-> attrs, is_primary_wallet |-> primary,
     wallet_sequence |-> 0]

NoDoc == NewDoc(Absent, Absent, NoneText, NoneText, Absent, FALSE)

---------------------------------------------------------------------------
(* ClientWallet: the write pipeline.  Each phase yields [err, doc]; err is *)
(* "" when the phase passes, else the ValidationError that frappe.throw    *)
(* raises.                                                                 *)

ErrPrimary == "A primary wallet already exists for site"
ErrBvn == "BVN must be exactly 11 digits"
ErrDuplicate == "Wallet name already exists for site"
ErrDatastore == "datastore error"

Pass(doc) == [err |-> "", doc |-> doc]
Throw(msg, doc) == [err |-> msg, doc |-> doc]

\* a variant that forgets the site_name filter
NextSequenceAnySite(tbl, site) ==
    IF tbl # {} THEN SetMax({w.wallet_sequence : w \in tbl}) + 1 ELSE 1

\* a variant that counts the wallets of the site instead of taking the maximum
NextSequenceCount(tbl, site) == Cardinality(BySite(tbl, site)) + 1

\* max existing wallet_sequence of the site + 1, or 1
NextSequence(tbl, site) ==
    IF BySite(tbl, site) # {}
    THEN SetMax({w.wallet_sequence : w \in BySite(tbl, site)}) + 1
    ELSE 1

before_insert(tbl, doc) ==
    LET seq == NextSequence(tbl, doc.site_name)
        wid == IF ~Truthy(doc.wallet_id)
               THEN DerivedWalletId(doc.site_name, seq)
               ELSE doc.wallet_id
    IN  [doc EXCEPT !.wallet_sequence = seq, !.wallet_id = wid]

PrimaryConflict(tbl, doc) ==
    /\ doc.is_primary_wallet
    /\ \E w \in BySite(tbl, doc.site_name) :
          w.is_primary_wallet /\ w.name # doc.name

BvnRejected(doc) == Truthy(doc.bvn) /\ Len(doc.bvn) # BvnLen

\* a variant without the first-wallet rule
AutoPrimaryNever(tbl, doc) == doc

AutoPrimary(tbl, doc) ==
    IF ~doc.is_primary_wallet /\ BySite(tbl, doc.site_name) = {}
    THEN [doc EXCEPT !.is_primary_wallet = TRUE]
    ELSE doc

before_save(tbl, doc) ==
    IF PrimaryConflict(tbl, doc) THEN Throw(ErrPrimary, doc)
    ELSE IF BvnRejected(doc) THEN Throw(ErrBvn, doc)
    ELSE Pass(AutoPrimary(tbl, doc))

\* a variant whose uniqueness query finds nothing
DuplicateNameNever(tbl, doc) == FALSE

DuplicateName(tbl, doc) ==
    \E w \in BySite(tbl, doc.site_name) :
        w.wallet_name = doc.wallet_name /\ w.name # doc.name

validate(tbl, doc) ==
    IF DuplicateName(tbl, doc) THEN Throw(ErrDuplicate, doc) ELSE Pass(doc)

\* a variant that runs before_save ahead of validate
RunSaveMethodsPreSaveFirst(tbl, doc) ==
    LET b == before_save(tbl, doc)
    IN  IF b.err # "" THEN b ELSE validate(tbl, b.doc)

\* Document.save() of a document already named: validate, then before_save
RunSaveMethods(tbl, doc) ==
    LET v == validate(tbl, doc)
    IN  IF v.err # "" THEN v ELSE before_save(tbl, v.doc)

\* Document.insert(): before_insert, naming, then the save methods
InsertDoc(tbl, doc, name) ==
    RunSaveMethods(tbl, [before_insert(tbl, doc) EXCEPT !.name = name])


---------------------------------------------------------------------------
(* Webhook requests.  A request is the raw body (JSON or not, and the      *)
(* value it decodes to), frappe.form_dict, and where the datastore fails.  *)

Attrs == {"a1", "a2"}

MkData(kind, site, wname, bvn, wid, attrs) ==
    [kind |-> kind, site_name |-> site, wallet_name |-> wname, bvn |-> bvn,
     wallet_id |-> wid, attrs |-> attrs]

DictData(site, wname, bvn, wid, attrs) == MkData("dict", site, wname, bvn, wid, attrs)

\* the payload has no "data" key
AbsentData == MkData("absent", Absent, Absent, NoneText, NoneText, Absent)

\* "data" is null, a string, a list or a number
NonDictData == MkData("nondict", Absent, Absent, NoneText, NoneText, Absent)

MkPayload(kind, event, data) == [kind |-> kind, event |-> event, data |-> data]

\* a JSON value that is falsy in Python: null, {}, [], 0, ""
FalsyPayload == MkPayload("falsy", Absent, AbsentData)

\* a truthy JSON value that is no object
NonDictPayload == MkPayload("nondict", Absent, AbsentData)

DictPayload(event, data) == MkPayload("dict", event, data)

MkForm(event, data_kind, data) == [event |-> event, data_kind |-> data_kind, data |-> data]

NoForm == MkForm(Absent, "absent", AbsentData)

\* characters of the raw body that precede the identity number: a body like
\* {"event": ..., "data": {"wallet_name": ..., "site_name": ..., "bvn": "..."}}
\* with few fields, with more fields, with very many
ShortOffset == 90
MidOffset == 250
LongOffset == 3500

\* characters of the raw body that follow the identity number
BodyTail == 3

MkRequest(raw_json, payload, form, fault) ==
    [raw_json |-> raw_json, payload |-> payload, form |-> form, fault |-> fault,
     bvn_at |-> ShortOffset]

JsonRequest(payload, fault) == MkRequest(TRUE, payload, NoForm, fault)

FormRequest(form, fault) == MkRequest(FALSE, FalsyPayload, form, fault)

EventCreated == "wallet_created"
EventOther == "wallet_deleted"

---------------------------------------------------------------------------
(* client_wallet(): the webhook handler *)

ErrFormJson == "Invalid JSON in form data"
ErrNoEventData == "Invalid request format - no event/data found"
ErrNoPayload == "Could not parse request data"
ErrEvent == "Invalid event type. Expected 'wallet_created'"
ErrWalletName == "wallet_name is required"
ErrSiteName == "site_name is required"
ErrAttribute == "object has no attribute"
NoWarning == << >>

\* f"Invalid BVN provided ({len(bvn_clean)} digits), wallet created without BVN"
BvnWarning(n) == <<"Invalid BVN provided", n>>

Failure(msg) ==
    [success |-> FALSE, error |-> msg, warning |-> NoWarning, wallet_data |-> NoDoc,
     escaped |-> FALSE]

Success(doc, warning) ==
    [success |-> TRUE, error |-> "", warning |-> warning, wallet_data |-> doc,
     escaped |-> FALSE]

\* an exception that leaves the handler
Escaped(msg) ==
    [success |-> FALSE, error |-> msg, warning |-> NoWarning, wallet_data |-> NoDoc,
     escaped |-> TRUE]

\* What running the body of the try block gives: a returned response, or a
\* raised exception (exc # ""), with the table as the block left it.
Returned(resp, tbl, deleted, inserted) ==
    [exc |-> "", msg |-> "", resp |-> resp, tbl |-> tbl,
     deleted |-> deleted, inserted |-> inserted]

Raised(exc, msg, tbl, deleted) ==
    [exc |-> exc, msg |-> msg, resp |-> Failure(msg), tbl |-> tbl,
     deleted |-> deleted, inserted |-> {}]

\* a variant that falls back to the form fields when the body decodes to an
\* empty value
NormalizeFormFallback(req) ==
    IF req.raw_json /\ req.payload.kind # "falsy" THEN [err |-> "", payload |-> req.payload]
    ELSE IF req.form.event # Absent /\ req.form.data_kind # "absent"
         THEN IF req.form.data_kind = "badjson"
              THEN [err |-> ErrFormJson, payload |-> FalsyPayload]
              ELSE [err |-> "", payload |-> DictPayload(req.form.event, req.form.data)]
         ELSE [err |-> ErrNoEventData, payload |-> FalsyPayload]

\* lines 29-58: JSON body first, else the form fields
Normalize(req) ==
    IF req.raw_json THEN [err |-> "", payload |-> req.payload]
    ELSE IF req.form.event # Absent /\ req.form.data_kind # "absent"
         THEN IF req.form.data_kind = "badjson"
              THEN [err |-> ErrFormJson, payload |-> FalsyPayload]
              ELSE [err |-> "", payload |-> DictPayload(req.form.event, req.form.data)]
         ELSE [err |-> ErrNoEventData, payload |-> FalsyPayload]

\* lines 64-66: log_payload = payload.copy() is a shallow copy, so masking
\* log_payload["data"]["bvn"] writes into the dict that payload["data"] is.
MaskForLog(payload) ==
    IF payload.kind # "dict" \/ payload.data.kind = "nondict"
    THEN [exc |-> "AttributeError", payload |-> payload]
    ELSE IF payload.data.kind = "dict" /\ Truthy(payload.data.bvn)
         THEN [exc |-> "", payload |-> [payload EXCEPT !.data.bvn = Masked]]
         ELSE [exc |-> "", payload |-> payload]

\* a variant that drops an invalid identity number without a warning
IdentityPolicySilent(bvn) ==
    IF Truthy(bvn) /\ Len(StripNonDigits(bvn)) = BvnLen
    THEN [bvn_to_save |-> StripNonDigits(bvn), bvn_warning |-> NoWarning]
    ELSE [bvn_to_save |-> NoneText, bvn_warning |-> NoWarning]

\* lines 88-106: the identity-number policy
IdentityPolicy(bvn) ==
    IF Truthy(bvn)
    THEN LET bvn_clean == StripNonDigits(bvn)
         IN  IF Len(bvn_clean) = BvnLen
             THEN [bvn_to_save |-> bvn_clean, bvn_warning |-> NoWarning]
             ELSE [bvn_to_save |-> NoneText, bvn_warning |-> BvnWarning(Len(bvn_clean))]
    ELSE [bvn_to_save |-> NoneText, bvn_warning |-> NoWarning]

\* a variant that forgets the site_name filter
ExistingWalletAnySite(tbl, wname, site) == {w \in tbl : w.wallet_name = wname}

\* frappe.db.exists("Client Wallet", {wallet_name, site_name}): the rows that match
ExistingWallet(tbl, wname, site) ==
    {w \in tbl : w.wallet_name = wname /\ w.site_name = site}

DeleteDoc(tbl, row) == tbl \ {row}

\* lines 126-145: the document built from the announcement
WalletData(data, bvn_to_save) ==
    NewDoc(data.site_name, data.wallet_name,
           IF Truthy(bvn_to_save) THEN bvn_to_save ELSE NoneText,
           data.wallet_id, data.attrs, FALSE)

\* no response: the process ended before the handler returned
NoReply ==
    [success |-> FALSE, error |-> "", warning |-> NoWarning, wallet_data |-> NoDoc,
     escaped |-> FALSE]

ProcessExit == "<process exit>"

\* the process ends inside the try block, with the table as committed so far
Stopped(tbl, deleted) ==
    [exc |-> ProcessExit, msg |-> "", resp |-> NoReply, tbl |-> tbl,
     deleted |-> deleted, inserted |-> {}]

\* a variant whose failed insert takes the delete back
ReconcileRollback(tbl, name, data, fault, old) ==
    LET policy == IdentityPolicy(data.bvn)
        deleted == IF old = NoDoc THEN {} ELSE {old}
        kept == IF old = NoDoc THEN tbl ELSE DeleteDoc(tbl, old)
        ins == InsertDoc(kept, WalletData(data, policy.bvn_to_save), name)
    IN  IF old # NoDoc /\ fault = "delete"
        THEN Raised("DatabaseError", ErrDatastore, tbl, {})
        ELSE IF fault = "stop"
        THEN Stopped(tbl, {})
        ELSE IF ins.err # ""
        THEN Raised("ValidationError", ins.err, tbl, {})
        ELSE IF fault = "insert"
        THEN Raised("DatabaseError", ErrDatastore, tbl, {})
        ELSE Returned(Success(ins.doc, policy.bvn_warning),
                      kept \cup {ins.doc}, deleted, {ins.doc})

\* lines 108-164, for one choice `old` of the row frappe.db.exists reports
\* (old = NoDoc when there is none); the delete is committed at line 123,
\* before the insert is attempted
Reconcile(tbl, name, data, fault, old) ==
    LET policy == IdentityPolicy(data.bvn)
        deleted == IF old = NoDoc THEN {} ELSE {old}
        kept == IF old = NoDoc THEN tbl ELSE DeleteDoc(tbl, old)
        ins == InsertDoc(kept, WalletData(data, policy.bvn_to_save), name)
    IN  IF old # NoDoc /\ fault = "delete"
        THEN Raised("DatabaseError", ErrDatastore, tbl, {})
        ELSE IF fault = "stop"
        THEN Stopped(kept, deleted)
        ELSE IF ins.err # ""
        THEN Raised("ValidationError", ins.err, kept, deleted)
        ELSE IF fault = "insert"
        THEN Raised("DatabaseError", ErrDatastore, kept, deleted)
        ELSE Returned(Success(ins.doc, policy.bvn_warning),
                      kept \cup {ins.doc}, deleted, {ins.doc})

\* a variant that checks wallet_name and site_name before the event
TryBodyNamesFirst(tbl, name, req, old) ==
    LET norm == Normalize(req)
        masked == MaskForLog(norm.payload)
        payload == masked.payload
        data == payload.data
    IN  IF norm.err # "" THEN Returned(Failure(norm.err), tbl, {}, {})
        ELSE IF norm.payload.kind = "falsy" THEN Returned(Failure(ErrNoPayload), tbl, {}, {})
        ELSE IF masked.exc # "" THEN Raised(masked.exc, ErrAttribute, tbl, {})
        ELSE IF data.wallet_name = Absent THEN Returned(Failure(ErrWalletName), tbl, {}, {})
        ELSE IF data.site_name = Absent THEN Returned(Failure(ErrSiteName), tbl, {}, {})
        ELSE IF payload.event # EventCreated THEN Returned(Failure(ErrEvent), tbl, {}, {})
        ELSE Reconcile(tbl, name, data, req.fault, old)

\* lines 24-164: the body of the try block
TryBody(tbl, name, req, old) ==
    LET norm == Normalize(req)
        masked == MaskForLog(norm.payload)
        payload == masked.payload
        data == payload.data
    IN  IF norm.err # "" THEN Returned(Failure(norm.err), tbl, {}, {})
        ELSE IF norm.payload.kind = "falsy" THEN Returned(Failure(ErrNoPayload), tbl, {}, {})
        ELSE IF masked.exc # "" THEN Raised(masked.exc, ErrAttribute, tbl, {})
        ELSE IF payload.event # EventCreated THEN Returned(Failure(ErrEvent), tbl, {}, {})
        ELSE IF data.wallet_name = Absent THEN Returned(Failure(ErrWalletName), tbl, {}, {})
        ELSE IF data.site_name = Absent THEN Returned(Failure(ErrSiteName), tbl, {}, {})
        ELSE Reconcile(tbl, name, data, req.fault, old)


\* a variant without the final `except Exception`
ExceptClausesNarrow == <<"JSONDecodeError", "ValidationError">>

\* lines 166-177: the except clauses, in order
ExceptClauses == <<"JSONDecodeError", "ValidationError", "Exception">>

\* every exception the body can raise derives from Exception
IsInstance(exc, class) == class = "Exception" \/ exc = class

Caught(exc) == \E i \in 1..Len(ExceptClauses) : IsInstance(exc, ExceptClauses[i])

ErrJsonPayload == "Invalid JSON payload"

HandlerResponse(out) ==
    IF out.exc = "" THEN out.resp
    ELSE IF out.exc = ProcessExit THEN NoReply
    ELSE IF ~Caught(out.exc) THEN Escaped(out.msg)
    ELSE IF out.exc = "JSONDecodeError" THEN Failure(ErrJsonPayload)
    ELSE Failure(out.msg)

client_wallet(tbl, name, req, old) ==
    LET out == TryBody(tbl, name, req, old)
    IN  [out EXCEPT !.resp = HandlerResponse(out)]

---------------------------------------------------------------------------
(* What the handler writes to the log.  A message is its length, the text  *)
(* that stands where the identity number of the request stands (empty if   *)
(* the message has no such place) and the offset of that place.            *)

RawLogLen == 200
PayloadLogLen == 300
MaxTitle == 130
TitleKeep == 127
MaxMessage == 3000
TruncatedMark == "... (truncated)"

Min(a, b) == IF a < b THEN a ELSE b
Max(a, b) == IF a > b THEN a ELSE b

Text(size, bvn_at, bvn) == [size |-> size, bvn_at |-> bvn_at, bvn |-> bvn]

\* a message without any request data
Plain(str) == Text(Len(str), 0, EmptyText)

\* message[:limit]
TextCut(m, limit) ==
    Text(Min(m.size, limit), m.bvn_at,
         SubSeq(m.bvn, 1, Min(Len(m.bvn), Max(0, limit - m.bvn_at))))

\* f"{prefix}{message}"
Prefixed(prefix, m) == Text(Len(prefix) + m.size, Len(prefix) + m.bvn_at, m.bvn)

\* lines 4-18: the entry that reaches frappe.log_error
safe_log_error(message, title) ==
    [title |-> IF Len(title) > MaxTitle THEN SubSeq(title, 1, TitleKeep) \o "..." ELSE title,
     message |-> IF message.size > MaxMessage
                 THEN LET cut == TextCut(message, MaxMessage)
                      IN  Text(cut.size + Len(TruncatedMark), cut.bvn_at, cut.bvn)
                 ELSE message]

\* the identity number as the request carries it, empty if it carries none
BodyBvn(req) ==
    LET d == IF req.raw_json THEN req.payload.data ELSE req.form.data
    IN  IF Truthy(d.bvn) THEN d.bvn ELSE EmptyText

\* frappe.request.get_data(as_text=True), and the text of dict(form_dict)
RawBody(req) == Text(req.bvn_at + Len(BodyBvn(req)) + BodyTail, req.bvn_at, BodyBvn(req))

\* json.dumps(log_payload, indent=2): the identity number as log_payload holds it
PayloadDump(req, payload) ==
    LET shown == IF Truthy(payload.data.bvn) THEN payload.data.bvn ELSE EmptyText
    IN  Text(req.bvn_at + Len(shown) + BodyTail, req.bvn_at, shown)

\* lines 25-58: the entries written while the request is normalised
NormalizeLog(req) ==
    <<safe_log_error(Prefixed("Raw data: ", TextCut(RawBody(req), RawLogLen)), "Client Req")>>
    \o (IF req.raw_json
         THEN <<safe_log_error(Plain("Successfully parsed as JSON"), "Req Format")>>
         ELSE <<safe_log_error(Prefixed("Form data: ", RawBody(req)), "Form Data")>>
              \o (IF Normalize(req).err = ""
                   THEN <<safe_log_error(Plain("Successfully parsed form data"), "Req Format")>>
                   ELSE <<safe_log_error(Plain(Normalize(req).err), "Form Err")>>))

\* lines 166-177: the entry an except clause writes
ExceptLog(out) ==
    IF out.exc \in {"", ProcessExit} \/ ~Caught(out.exc) THEN << >>
    ELSE <<safe_log_error(Plain(out.msg),
                          IF out.exc = "JSONDecodeError" THEN "JSON Error"
                          ELSE IF out.exc = "ValidationError" THEN "Val Error"
                          ELSE "Creation Error")>>

\* lines 88-152: the entries written from the identity-number policy on
ReconcileLog(data, old, out) ==
    LET policy == IdentityPolicy(data.bvn)
    IN  (IF ~Truthy(data.bvn) THEN << >>
         ELSE IF policy.bvn_warning = NoWarning
         THEN <<safe_log_error(Plain("Valid BVN for wallet: " \o data.wallet_name), "BVN Valid")>>
         ELSE <<safe_log_error(Plain("Invalid BVN provided, wallet created without BVN"),
                               "BVN Warning")>>)
        \o <<safe_log_error(Plain("Processing wallet: " \o data.wallet_name), "Processing")>>
        \o (IF old = NoDoc THEN << >>
             ELSE <<safe_log_error(Plain("Replacing existing wallet: " \o data.wallet_name),
                                   "Replacing")>>)
        \o (IF out.exc = "" /\ out.resp.success
             THEN <<safe_log_error(Plain("Successfully created Client Wallet: "
                                         \o data.wallet_name), "Success")>>
             ELSE << >>)

\* the log entries of one call, in the order they are written; out is what
\* the try block gave
WebhookLog(req, old, out) ==
    LET norm == Normalize(req)
        masked == MaskForLog(norm.payload)
        payload == masked.payload
    IN  NormalizeLog(req)
        \o (IF norm.err # "" \/ norm.payload.kind = "falsy" THEN << >>
             ELSE IF masked.exc # "" THEN ExceptLog(out)
             ELSE <<safe_log_error(Prefixed("Payload: ",
                                            TextCut(PayloadDump(req, payload), PayloadLogLen)),
                                   "Parsed Payload")>>
                  \o (IF payload.event # EventCreated
                          \/ payload.data.wallet_name = Absent
                          \/ payload.data.site_name = Absent
                       THEN << >>
                       ELSE ReconcileLog(payload.data, old, out) \o ExceptLog(out)))

---------------------------------------------------------------------------
(* create_bulk_wallets(site_name, wallet_data) *)

DefaultAttrs == "a1"

BulkItem(wname, bvn) == [wallet_name |-> wname, bvn |-> bvn]

BulkOk(doc) ==
    [name |-> doc.name, wallet_name |-> doc.wallet_name, wallet_id |-> doc.wallet_id,
     status |-> "success", error |-> ""]

BulkError(item, msg) ==
    [name |-> 0, wallet_name |-> item.wallet_name, wallet_id |-> NoneText,
     status |-> "error", error |-> msg]

RECURSIVE create_bulk_wallets_abort(_, _, _, _)
\* a variant that gives up at the first item that fails
create_bulk_wallets_abort(tbl, name, site, items) ==
    IF items = << >> THEN [tbl |-> tbl, results |-> << >>]
    ELSE LET item == Head(items)
             ins == InsertDoc(tbl, NewDoc(site, item.wallet_name, item.bvn,
                                          NoneText, DefaultAttrs, FALSE), name)
         IN  IF ins.err # ""
             THEN [tbl |-> tbl, results |-> <<BulkError(item, ins.err)>>]
             ELSE LET rest == create_bulk_wallets_abort(tbl \cup {ins.doc}, name + 1,
                                                        site, Tail(items))
                  IN  [tbl |-> rest.tbl, results |-> <<BulkOk(ins.doc)>> \o rest.results]

RECURSIVE create_bulk_wallets(_, _, _, _)
\* lines 123-146: one insert per item, each failure caught and reported
create_bulk_wallets(tbl, name, site, items) ==
    IF items = << >> THEN [tbl |-> tbl, results |-> << >>]
    ELSE LET item == Head(items)
             ins == InsertDoc(tbl, NewDoc(site, item.wallet_name, item.bvn,
                                          NoneText, DefaultAttrs, FALSE), name)
             ok == ins.err = ""
             rest == create_bulk_wallets(IF ok THEN tbl \cup {ins.doc} ELSE tbl,
                                         IF ok THEN name + 1 ELSE name,
                                         site, Tail(items))
         IN  [tbl |-> rest.tbl,
              results |-> <<IF ok THEN BulkOk(ins.doc) ELSE BulkError(item, ins.err)>>
                          \o rest.results]

---------------------------------------------------------------------------
(* set_primary_wallet(wallet_name, site_name) *)

\* lines 169-173: UPDATE ... SET is_primary_wallet = 0 WHERE site_name = %s
ClearPrimary(tbl, site) ==
    {[w EXCEPT !.is_primary_wallet = IF w.site_name = site THEN FALSE ELSE @] : w \in tbl}

\* line 176: frappe.db.set_value("Client Wallet", wallet_name, "is_primary_wallet", 1)
\* addresses the row by its document name
SetValuePrimary(tbl, docname) ==
    {[w EXCEPT !.is_primary_wallet = IF w.name = docname THEN TRUE ELSE @] : w \in tbl}

set_primary_wallet(tbl, wallet_name, site) ==
    SetValuePrimary(ClearPrimary(tbl, site), wallet_name)

---------------------------------------------------------------------------
(* Document.save() on an existing wallet with edited fields *)

Edited(row, e) ==
    CASE e[1] = "wallet_name" -> [row EXCEPT !.wallet_name = e[2]]
      [] e[1] = "is_primary_wallet" -> [row EXCEPT !.is_primary_wallet = e[2]]

SaveDoc(tbl, name, e) ==
    LET old == Row(tbl, name)
        res == RunSaveMethods(tbl, Edited(old, e))
    IN  IF res.err # "" THEN [err |-> res.err, tbl |-> tbl]
        ELSE [err |-> "", tbl |-> (tbl \ {old}) \cup {res.doc}]


---------------------------------------------------------------------------
(* Inputs *)

WebhookBvns == {NoneText, EmptyText, Bvn14Dashed, Bvn10}
InsertBvns == {NoneText, Bvn10}

Announcements ==
    {DictData(s, n, b, ia[1], ia[2]) :
        s \in Sites, n \in WalletNames, b \in WebhookBvns,
        ia \in {<<NoneText, "a1">>, <<SuppliedWalletId, "a2">>}}

PlainAnnouncements ==
    {DictData(s, n, b, NoneText, "a1") :
        s \in Sites, n \in WalletNames, b \in {NoneText, Bvn14Dashed}}

PlainData(s, n) == DictData(s, n, NoneText, NoneText, "a1")

FaultyRequests ==
    {JsonRequest(DictPayload(EventCreated, PlainData(s, n)), f) :
        s \in {"shop1"}, n \in WalletNames, f \in {"delete", "insert"}}

MalformedRequests ==
    {JsonRequest(FalsyPayload, "none"),
     JsonRequest(NonDictPayload, "none"),
     JsonRequest(DictPayload(EventOther, PlainData("shop1", "Main")), "none"),
     JsonRequest(DictPayload(Absent, PlainData("shop1", "Main")), "none"),
     JsonRequest(DictPayload(EventCreated, AbsentData), "none"),
     JsonRequest(DictPayload(EventCreated, NonDictData), "none"),
     JsonRequest(DictPayload(EventOther, NonDictData), "none"),
     JsonRequest(DictPayload(EventCreated, PlainData("shop1", Absent)), "none"),
     JsonRequest(DictPayload(EventCreated, PlainData(Absent, "Main")), "none"),
     JsonRequest(DictPayload(EventOther, PlainData(Absent, Absent)), "none"),
     JsonRequest(DictPayload(EventCreated, PlainData(Absent, Absent)), "none"),
     FormRequest(NoForm, "none"),
     FormRequest(MkForm(EventCreated, "absent", AbsentData), "none"),
     FormRequest(MkForm(Absent, "json", PlainData("shop1", "Main")), "none"),
     FormRequest(MkForm(EventCreated, "badjson", AbsentData), "none"),
     FormRequest(MkForm(EventCreated, "json", NonDictData), "none"),
     FormRequest(MkForm(EventOther, "json", PlainData("shop1", "Main")), "none")}

FormRequests ==
    {FormRequest(MkForm(EventCreated, "json", DictData("shop2", "Main", b, NoneText, "a1")), "none") :
        b \in {NoneText, Bvn14Dashed}}

\* a JSON body that arrives together with usable form fields
ShadowedFormRequests ==
    {MkRequest(TRUE, p, MkForm(EventCreated, "json", PlainData("shop2", "Second")), "none") :
        p \in {FalsyPayload, DictPayload(EventCreated, PlainData("shop1", "Main"))}}

\* form fields whose data is already decoded, and undecodable data beside
\* another event
FormVariants ==
    {FormRequest(MkForm(EventCreated, "object", PlainData("shop2", "Main")), "none"),
     FormRequest(MkForm(EventOther, "badjson", AbsentData), "none")}

\* bodies in which many characters precede the identity number
LongBodyRequests ==
    {[JsonRequest(DictPayload(EventCreated, DictData("shop1", "Main", Bvn10, NoneText, "a1")),
                  "none") EXCEPT !.bvn_at = MidOffset],
     [FormRequest(MkForm(EventCreated, "json", DictData("shop2", "Main", Bvn10, NoneText, "a1")),
                  "none") EXCEPT !.bvn_at = LongOffset]}

\* every request shape
WebhookRequests ==
    {JsonRequest(DictPayload(EventCreated, d), "none") : d \in Announcements}
        \cup FaultyRequests \cup MalformedRequests \cup FormRequests
        \cup ShadowedFormRequests \cup FormVariants \cup LongBodyRequests

\* the requests of the mixed specification: announcements, and one rejection
PlainRequests ==
    {JsonRequest(DictPayload(EventCreated, d), "none") : d \in PlainAnnouncements}
        \cup {JsonRequest(DictPayload(EventOther, PlainData("shop1", "Main")), "none")}

BulkItems ==
    {BulkItem("Main", NoneText), BulkItem("Second", Bvn11Letter)}

\* the wallets that exist before the announcements of the webhook specification
SeedItems == {BulkItem("Main", Bvn11), BulkItem("Second", NoneText)}

RECURSIVE SeqsUpTo(_, _)
\* the sequences over S of length at most n
SeqsUpTo(S, n) ==
    IF n = 0 THEN {<< >>}
    ELSE LET shorter == SeqsUpTo(S, n - 1)
         IN  shorter \cup {Append(q, x) : q \in {r \in shorter : Len(r) = n - 1}, x \in S}

\* one field of the form edited before the save
Edits ==
    {<<"wallet_name", n>> : n \in WalletNames}
        \cup {<<"is_primary_wallet", p>> : p \in BOOLEAN}

---------------------------------------------------------------------------
(* The state machine *)

NoLog == << >>

NoOp == [kind |-> "init", deleted |-> {}, inserted |-> {}, log |-> NoLog]
NoRequest == "none"

\* the requests served at the same time, each inserting one wallet
Writers == {"w1", "w2"}

\* a request that has not called insert() yet
Idle == [pc |-> "idle", doc |-> NoDoc, seen |-> {}, late |-> FALSE, err |-> ""]

Init ==
    /\ wallets = {}
    /\ nextName = 1
    /\ issued = [s \in Sites |-> << >>]
    /\ op = NoOp
    /\ request = NoRequest
    /\ response = "none"
    /\ inflight = [w \in Writers |-> Idle]

\* the data the handler works on, after normalisation
RequestData(req) == Normalize(req).payload.data

\* the rows frappe.db.exists may report for the request, or NoDoc
OldChoices(tbl, req) ==
    LET found == ExistingWallet(tbl, RequestData(req).wallet_name, RequestData(req).site_name)
    IN  IF found = {} THEN {NoDoc} ELSE found

Touched(rows, s) == \E w \in rows : w.site_name = s

\* POST /wallet-created
Webhook(req) ==
    /\ nextName <= MaxDocs
    /\ \E old \in OldChoices(wallets, req) :
          \E out \in {client_wallet(wallets, nextName, req, old)} :
              /\ wallets' = out.tbl
              /\ nextName' = nextName + Cardinality(out.inserted)
              /\ issued' = [s \in Sites |->
                               IF Touched(out.inserted, s)
                               THEN Append(issued[s],
                                           (CHOOSE w \in out.inserted : TRUE).wallet_sequence)
                               ELSE issued[s]]
              /\ op' = [kind |-> "webhook", deleted |-> out.deleted, inserted |-> out.inserted,
                        log |-> WebhookLog(req, old, out)]
              /\ request' = req
              /\ response' = out.resp
    /\ UNCHANGED inflight

RECURSIVE InsertedSequences(_, _)
\* the wallet_sequence values of the documents a bulk call inserted, in order
InsertedSequences(tbl, results) ==
    IF results = << >> THEN << >>
    ELSE (IF Head(results).status = "success"
          THEN <<Row(tbl, Head(results).name).wallet_sequence>> ELSE << >>)
         \o InsertedSequences(tbl, Tail(results))

Bulk(site, items) ==
    /\ nextName + Len(items) - 1 <= MaxDocs
    /\ \E out \in {create_bulk_wallets(wallets, nextName, site, items)} :
           /\ wallets' = out.tbl
           /\ nextName' = nextName + Cardinality(out.tbl \ wallets)
           /\ issued' = [issued EXCEPT ![site] = @ \o InsertedSequences(out.tbl, out.results)]
           /\ op' = [kind |-> "bulk", deleted |-> {}, inserted |-> out.tbl \ wallets,
                     log |-> NoLog]
           /\ request' = [site_name |-> site, wallet_data |-> items]
           /\ response' = out.results
    /\ UNCHANGED inflight

\* a new wallet saved through the document API
InsertNew(site, wname, bvn, primary) ==
    /\ nextName <= MaxDocs
    /\ LET ins == InsertDoc(wallets, NewDoc(site, wname, bvn, NoneText, DefaultAttrs, primary),
                            nextName)
           ok == ins.err = ""
       IN  /\ wallets' = IF ok THEN wallets \cup {ins.doc} ELSE wallets
           /\ nextName' = IF ok THEN nextName + 1 ELSE nextName
           /\ issued' = IF ok THEN [issued EXCEPT ![site] = Append(@, ins.doc.wallet_sequence)]
                        ELSE issued
           /\ op' = [kind |-> "insert", deleted |-> {}, inserted |-> IF ok THEN {ins.doc} ELSE {},
                     log |-> NoLog]
           /\ request' = NewDoc(site, wname, bvn, NoneText, DefaultAttrs, primary)
           /\ response' = ins.err
    /\ UNCHANGED inflight

\* an existing wallet edited and saved through the document API
Save(name, e) ==
    /\ name \in Names(wallets)
    /\ LET out == SaveDoc(wallets, name, e)
       IN  /\ wallets' = out.tbl
           /\ response' = out.err
    /\ op' = [kind |-> "save", deleted |-> {}, inserted |-> {}, log |-> NoLog]
    /\ request' = Edited(Row(wallets, name), e)
    /\ UNCHANGED <<nextName, issued, inflight>>

SetPrimary(wallet_name, site) ==
    /\ wallets' = set_primary_wallet(wallets, wallet_name, site)
    /\ op' = [kind |-> "set_primary", deleted |-> {}, inserted |-> {}, log |-> NoLog]
    /\ request' = [wallet_name |-> wallet_name, site_name |-> site]
    /\ response' = "success"
    /\ UNCHANGED <<nextName, issued, inflight>>

Next ==
    \/ \E req \in PlainRequests : Webhook(req)
    \/ \E site \in Sites, items \in SeqsUpTo(BulkItems, MaxBulk) : Bulk(site, items)
    \/ \E site \in Sites, wname \in WalletNames, bvn \in InsertBvns, primary \in BOOLEAN :
          InsertNew(site, wname, bvn, primary)
    \/ \E name \in 1..MaxDocs, e \in Edits : Save(name, e)
    \/ \E name \in 1..MaxDocs, site \in Sites : SetPrimary(name, site)

Spec == Init /\ [][Next]_vars

\* The webhook under every request shape, over wallets that bulk creation
\* or earlier announcements left.
HookNext ==
    \/ \E req \in WebhookRequests : Webhook(req)
    \/ \E site \in Sites, items \in SeqsUpTo(SeedItems, 1) : Bulk(site, items)

HookSpec == Init /\ [][HookNext]_vars


\* Announcements and re-announcements during which the datastore may fail
\* or the process may end after the delete
ReplaceFaults == {"none", "delete", "insert", "stop"}

ReplaceRequests ==
    {JsonRequest(DictPayload(EventCreated, PlainData(s, n)), f) :
        s \in Sites, n \in WalletNames, f \in ReplaceFaults}

ReplaceNext ==
    \/ \E req \in ReplaceRequests : Webhook(req)
    \/ \E site \in Sites, items \in SeqsUpTo(SeedItems, 1) : Bulk(site, items)

ReplaceSpec == Init /\ [][ReplaceNext]_vars

\* Creations and re-announcements only, with a third wallet name
CreateNames == WalletNames \cup {"Third"}

CreateRequests ==
    {JsonRequest(DictPayload(EventCreated, PlainData(s, n)), "none") :
        s \in Sites, n \in CreateNames}

CreateItems ==
    {BulkItem(n, NoneText) : n \in CreateNames} \cup {BulkItem("Third", Bvn10)}

CreateNext ==
    \/ \E req \in CreateRequests : Webhook(req)
    \/ \E site \in Sites, items \in SeqsUpTo(CreateItems, MaxBulk) : Bulk(site, items)
    \/ \E site \in Sites, wname \in CreateNames, primary \in BOOLEAN :
          InsertNew(site, wname, NoneText, primary)

CreateSpec == Init /\ [][CreateNext]_vars

\* Announcements only, one after the other, the datastore never failing
AnnounceNext == \E req \in CreateRequests : Webhook(req)

AnnounceSpec == Init /\ [][AnnounceNext]_vars

---------------------------------------------------------------------------
(* Two requests inserting wallets at the same time.  Each insert() is the  *)
(* chain before_insert, naming, validate, before_save, db_insert; every    *)
(* query of a hook reads the rows stored at the moment it runs, and no     *)
(* hook takes a lock.                                                      *)

\* a variant of the datastore with a unique index on (site_name, wallet_sequence)
db_insert_unique_sequence(tbl, doc) ==
    IF \E w \in BySite(tbl, doc.site_name) : w.wallet_sequence = doc.wallet_sequence
    THEN Throw(ErrDatastore, doc)
    ELSE Pass(doc)

\* the INSERT of doc.insert(): only the document name is a key
db_insert(tbl, doc) ==
    IF doc.name \in Names(tbl) THEN Throw(ErrDatastore, doc) ELSE Pass(doc)

Flight(pc, doc, seen, late, err) ==
    [pc |-> pc, doc |-> doc, seen |-> seen, late |-> late, err |-> err]

RaceOp(rows) == [kind |-> "race", deleted |-> {}, inserted |-> rows, log |-> NoLog]

\* insert() starts: before_insert reads the site's highest sequence, then
\* the document is named
RaceBeforeInsert(w, site, wname, primary) ==
    /\ inflight[w].pc \in {"idle", "done", "failed"}
    /\ nextName <= MaxDocs
    /\ LET new == NewDoc(site, wname, NoneText, NoneText, DefaultAttrs, primary)
           doc == [before_insert(wallets, new) EXCEPT !.name = nextName]
       IN  /\ inflight' = [inflight EXCEPT ![w] = Flight("named", doc, wallets, FALSE, "")]
           /\ request' = new
    /\ nextName' = nextName + 1
    /\ op' = RaceOp({})
    /\ response' = ""
    /\ UNCHANGED <<wallets, issued>>

\* validate reads the site's wallet names
RaceValidate(w) ==
    /\ inflight[w].pc = "named"
    /\ LET f == inflight[w]
           v == validate(wallets, f.doc)
       IN  /\ inflight' = [inflight EXCEPT ![w] =
                              IF v.err = "" THEN [f EXCEPT !.pc = "validated"]
                              ELSE [f EXCEPT !.pc = "failed", !.err = v.err]]
           /\ response' = v.err
           /\ request' = f.doc
    /\ op' = RaceOp({})
    /\ UNCHANGED <<wallets, nextName, issued>>

\* before_save reads the site's primary wallet and whether the site has wallets
RaceBeforeSave(w) ==
    /\ inflight[w].pc = "validated"
    /\ LET f == inflight[w]
           b == before_save(wallets, f.doc)
       IN  /\ inflight' = [inflight EXCEPT ![w] =
                              IF b.err = "" THEN [f EXCEPT !.pc = "checked", !.doc = b.doc]
                              ELSE [f EXCEPT !.pc = "failed", !.err = b.err]]
           /\ response' = b.err
           /\ request' = f.doc
    /\ op' = RaceOp({})
    /\ UNCHANGED <<wallets, nextName, issued>>

\* the row is written; requests that still have hooks to run will read it
RaceDbInsert(w) ==
    /\ inflight[w].pc = "checked"
    /\ LET f == inflight[w]
           r == db_insert(wallets, f.doc)
           ok == r.err = ""
       IN  /\ wallets' = IF ok THEN wallets \cup {f.doc} ELSE wallets
           /\ issued' = IF ok THEN [issued EXCEPT ![f.doc.site_name] =
                                        Append(@, f.doc.wallet_sequence)]
                        ELSE issued
           /\ inflight' = [v \in Writers |->
                  IF v = w
                  THEN (IF ok THEN [f EXCEPT !.pc = "done"]
                        ELSE [f EXCEPT !.pc = "failed", !.err = r.err])
                  ELSE IF ok /\ inflight[v].pc \in {"named", "validated"}
                       THEN [inflight[v] EXCEPT !.late = TRUE]
                       ELSE inflight[v]]
           /\ op' = RaceOp(IF ok THEN {f.doc} ELSE {})
           /\ response' = r.err
           /\ request' = f.doc
    /\ UNCHANGED nextName

RaceNext ==
    \/ \E w \in Writers, site \in Sites, wname \in WalletNames, primary \in BOOLEAN :
          RaceBeforeInsert(w, site, wname, primary)
    \/ \E w \in Writers : RaceValidate(w)
    \/ \E w \in Writers : RaceBeforeSave(w)
    \/ \E w \in Writers : RaceDbInsert(w)

RaceSpec == Init /\ [][RaceNext]_vars

---------------------------------------------------------------------------
(* Properties *)

Primaries(tbl, site) == {w \in BySite(tbl, site) : w.is_primary_wallet}

PairRows(tbl, site, wname) == {w \in tbl : w.site_name = site /\ w.wallet_name = wname}

\* C1: each site has at most one wallet with is_primary_wallet = true, in
\* every state that webhook creations, bulk creations, saves and
\* set_primary_wallet calls reach.
C1_AtMostOnePrimary ==
    \A s \in Sites : Cardinality(Primaries(wallets, s)) <= 1

FirstInserted(rows) == CHOOSE w \in rows : \A v \in rows : w.name <= v.name

\* C2: a wallet inserted while its site held no wallet (all the wallets of
\* the site were inserted by the operation that just ran, after whatever it
\* deleted) is primary, whatever is_primary_wallet the input carried.
C2_FirstWalletPrimary ==
    \A s \in Sites :
        LET rows == BySite(wallets, s)
        IN  (rows # {} /\ rows \subseteq op.inserted) =>
                FirstInserted(rows).is_primary_wallet

\* a re-announcement of the only wallet of a site has just replaced it
C2_Witness ==
    /\ op.kind = "webhook"
    /\ op.deleted # {}
    /\ \E s \in Sites :
          /\ BySite(wallets, s) = op.inserted
          /\ \A w \in op.inserted : w.is_primary_wallet /\ w.name > 1

\* C3: a site whose N creations all still exist (distinct names, nothing
\* deleted) holds exactly the sequences 1..N, the i-th creation holding i.
C3_SequencesOneToN ==
    \A s \in Sites :
        LET rows == BySite(wallets, s)
            N == Len(issued[s])
        IN  Cardinality(rows) = N =>
                /\ {w.wallet_sequence : w \in rows} = 1..N
                /\ \A i \in 1..N : issued[s][i] = i

C3_Witness ==
    \E s \in Sites :
        /\ Len(issued[s]) >= 3
        /\ Cardinality(BySite(wallets, s)) = Len(issued[s])

\* C4: the wallet_sequence values handed out for a site are strictly
\* increasing in time, so none is assigned twice, also after the wallet
\* holding the highest one was deleted by a re-announcement.
C4_SequencesNeverReused ==
    \A s \in Sites :
        \A i, j \in 1..Len(issued[s]) : i < j => issued[s][i] < issued[s][j]


\* the request passes the checks before reconciliation, and the datastore works
Accepted(req) ==
    LET norm == Normalize(req)
        data == norm.payload.data
    IN  /\ norm.err = ""
        /\ norm.payload.kind = "dict"
        /\ norm.payload.event = EventCreated
        /\ data.kind = "dict"
        /\ data.wallet_name # Absent
        /\ data.site_name # Absent
        /\ req.fault = "none"

AcceptedRequests == {req \in WebhookRequests : Accepted(req)}

\* the wallet the call returned is the only one of the announced pair, it is
\* a new record, and all it holds comes from the announcement or was computed
\* afresh by the pipeline
Replaced(d, w) ==
    LET others == BySite(wallets, d.site_name) \ {w}
    IN  /\ PairRows(wallets, d.site_name, d.wallet_name) = {w}
        /\ \A old \in op.deleted : old.name # w.name /\ old \notin wallets
        /\ w.attrs = d.attrs
        /\ w.wallet_id = IF Truthy(d.wallet_id) THEN d.wallet_id
                         ELSE DerivedWalletId(d.site_name, w.wallet_sequence)
        /\ w.bvn \in {NoneText, StripNonDigits(d.bvn)}
        /\ w.is_primary_wallet = (others = {})
        /\ w.wallet_sequence = NextSequence(others, d.site_name)

\* C5: after a successful webhook call the store holds exactly one wallet
\* for the announced (site, wallet_name) pair, also when the pair existed
\* before: a new record whose attributes are those of the announcement
\* (identity number: none, or the announced one cleaned), nothing of the
\* deleted record; the call deleted at most one record, of that pair, and
\* inserted one.
C5_ReannounceReplaces ==
    (op.kind = "webhook" /\ response.success) =>
        /\ Replaced(RequestData(request), response.wallet_data)
        /\ Cardinality(op.deleted) <= 1
        /\ op.inserted = {response.wallet_data}
        /\ \A old \in op.deleted :
              /\ old.wallet_name = RequestData(request).wallet_name
              /\ old.site_name = RequestData(request).site_name

\* a wallet with an identity number and attributes a1 has just been replaced
\* by an announcement with attributes a2 and no identity number
C5_Witness ==
    /\ op.kind = "webhook"
    /\ response.success
    /\ ~Truthy(RequestData(request).bvn)
    /\ \E old \in op.deleted :
          /\ old.bvn = Bvn11
          /\ old.attrs # response.wallet_data.attrs
          /\ response.wallet_data.bvn = NoneText
          /\ response.wallet_data \in wallets

NameTaken(tbl, site, wname, self) ==
    \E w \in tbl : w.site_name = site /\ w.wallet_name = wname /\ w.name # self

NoDuplicateNames ==
    \A w, v \in wallets :
        (w.site_name = v.site_name /\ w.wallet_name = v.wallet_name) => w = v

\* the operation that just ran was rejected with the duplicate-name error
\* and wrote nothing
RejectedAsDuplicate == response' = ErrDuplicate /\ wallets' = wallets

\* request' is the document as submitted: a new one, or an existing one edited
DupSaveRejected ==
    (/\ op'.kind \in {"insert", "save"}
     /\ NameTaken(wallets, request'.site_name, request'.wallet_name, request'.name))
        => RejectedAsDuplicate

\* the bulk result of every item whose name the site held already is the
\* duplicate-name error, and the wallets of that name are as before
DupBulkRejected ==
    op'.kind = "bulk" =>
        \A i \in 1..Len(request'.wallet_data) :
            LET wname == request'.wallet_data[i].wallet_name
            IN  NameTaken(wallets, request'.site_name, wname, 0) =>
                    /\ i <= Len(response')
                    /\ response'[i].status = "error"
                    /\ response'[i].error = ErrDuplicate
                    /\ PairRows(wallets', request'.site_name, wname)
                           = PairRows(wallets, request'.site_name, wname)

\* C6: after every step no two wallets of a site share a wallet_name (the
\* initial store is empty), and an insert or an
\* update that would create such a pair is rejected with the duplicate-name
\* error and leaves the store (for a bulk item: the wallets of that name)
\* unchanged.
C6_NamesUniquePerSite ==
    [][NoDuplicateNames' /\ DupSaveRejected /\ DupBulkRejected]_vars

\* a rename to a name that the site already holds has just been rejected
C6_Witness ==
    /\ op.kind = "save"
    /\ response = ErrDuplicate
    /\ \E s \in Sites : Cardinality(BySite(wallets, s)) >= 2

ValidBvnRequests ==
    {req \in AcceptedRequests :
        /\ Truthy(RequestData(req).bvn)
        /\ Len(StripNonDigits(RequestData(req).bvn)) = BvnLen}

InvalidBvnRequests ==
    {req \in AcceptedRequests :
        /\ Truthy(RequestData(req).bvn)
        /\ Len(StripNonDigits(RequestData(req).bvn)) > 0
        /\ Len(StripNonDigits(RequestData(req).bvn)) # BvnLen}

NoBvnRequests == {req \in AcceptedRequests : ~Truthy(RequestData(req).bvn)}

\* C7: a webhook whose identity number cleans to exactly 11 digits is
\* accepted: the wallet stores the cleaned digits, the response has no warning.
C7_ValidBvnStored ==
    (op.kind = "webhook" /\ request \in ValidBvnRequests) =>
        /\ response.success
        /\ response.warning = NoWarning
        /\ response.wallet_data.bvn = StripNonDigits(RequestData(request).bvn)
        /\ response.wallet_data \in wallets

CreatedWithoutBvn ==
    /\ response.success
    /\ response.wallet_data.bvn = NoneText
    /\ response.wallet_data \in wallets

\* C8: an accepted webhook (datastore working) whose identity number cleans
\* to a non-empty digit string of another length than 11 succeeds with a
\* warning and a wallet without identity number; one whose identity number
\* is absent or empty succeeds with no warning and no identity number.
C8_InvalidBvnWarns ==
    op.kind = "webhook" =>
        /\ request \in InvalidBvnRequests =>
              (CreatedWithoutBvn /\ response.warning # NoWarning)
        /\ request \in NoBvnRequests =>
              (CreatedWithoutBvn /\ response.warning = NoWarning)

\* a 10-digit identity number has just been dropped with a warning
C8_Witness ==
    /\ op.kind = "webhook"
    /\ request \in InvalidBvnRequests
    /\ RequestData(request).bvn = Bvn10
    /\ response.success
    /\ response.warning # NoWarning
    /\ response.wallet_data.bvn = NoneText

\* C9: every stored identity number is exactly 11 characters, all digits.
C9_StoredBvnElevenDigits ==
    \A w \in wallets :
        w.bvn # NoneText => (Len(w.bvn) = BvnLen /\ AllDigits(w.bvn))

\* C10: every webhook call returns a response, none lets an exception out:
\* success = true only with a wallet inserted, else success = false with an
\* error string and nothing inserted.
C10_AlwaysAResponse ==
    op.kind = "webhook" =>
        /\ ~response.escaped
        /\ response.success =>
              (/\ op.inserted = {response.wallet_data}
               /\ response.wallet_data \in wallets
               /\ response.error = "")
        /\ ~response.success =>
              (/\ response.error # ""
               /\ op.inserted = {}
               /\ response.wallet_data = NoDoc)

\* the datastore failed on the insert after the old wallet was deleted
C10_Witness ==
    /\ op.kind = "webhook"
    /\ ~response.success
    /\ response.error = ErrDatastore
    /\ op.deleted # {}

\* the envelope the request carries: the decoded body, else the form fields
Envelope(req) ==
    IF req.raw_json THEN req.payload ELSE DictPayload(req.form.event, req.form.data)

\* neither the body nor the form fields give an envelope
Unparseable(req) ==
    \/ req.raw_json /\ req.payload.kind = "falsy"
    \/ ~req.raw_json /\ (req.form.event = Absent \/ req.form.data_kind \in {"absent", "badjson"})

\* the first of the three checks that the envelope fails, "" if it passes all
FirstFailedCheck(e) ==
    IF e.event # EventCreated THEN ErrEvent
    ELSE IF e.data.wallet_name = Absent THEN ErrWalletName
    ELSE IF e.data.site_name = Absent THEN ErrSiteName
    ELSE ""

\* an envelope that is an object whose data, if any, is an object
WellFormed(req) ==
    ~Unparseable(req) /\ Envelope(req).kind = "dict" /\ Envelope(req).data.kind # "nondict"

RejectedEarly(req) ==
    \/ Unparseable(req)
    \/ Envelope(req).kind = "dict" /\ FirstFailedCheck(Envelope(req)) # ""

\* C11: a webhook request rejected before reconciliation (no envelope, wrong
\* event, wallet_name or site_name missing) changes nothing in the store,
\* and a well-formed envelope is answered with the error of the first check
\* it fails in the order event, wallet_name, site_name.
C11_RejectionLeavesStore ==
    [][(op'.kind = "webhook" /\ RejectedEarly(request')) =>
          /\ wallets' = wallets
          /\ nextName' = nextName
          /\ issued' = issued
          /\ ~response'.success
          /\ WellFormed(request') =>
                response'.error = FirstFailedCheck(Envelope(request'))]_vars

\* a request with another event and no names was rejected for its event
\* while the store held wallets
C11_Witness ==
    /\ op.kind = "webhook"
    /\ wallets # {}
    /\ WellFormed(request)
    /\ Envelope(request).event # EventCreated
    /\ Envelope(request).data.wallet_name = Absent
    /\ response.error = ErrEvent

\* the wallet_id that the caller supplied for the operation that just ran
SuppliedId ==
    IF op.kind = "webhook" THEN Envelope(request).data.wallet_id ELSE NoneText

\* "WLT-" + site + "-" + the sequence padded to five digits, for a sequence
\* of one digit
FiveDigitId(site, seq) == <<"WLT-", site, "-", "0", "0", "0", "0", DigitChar(seq)>>

\* C12: a wallet created by the webhook or by bulk creation without a
\* supplied wallet_id has wallet_id "WLT-" + site_name + "-" + its own
\* wallet_sequence zero-padded to 5 digits; a supplied wallet_id is stored
\* unchanged.
C12_WalletIdFormat ==
    op.kind \in {"webhook", "bulk"} =>
        \A w \in op.inserted :
            /\ w \in wallets
            /\ w.wallet_sequence \in 1..9
            /\ w.wallet_id = IF Truthy(SuppliedId) THEN SuppliedId
                             ELSE FiveDigitId(w.site_name, w.wallet_sequence)

\* a second wallet of a site got the derived id of sequence 2 while another
\* wallet keeps the id its announcement supplied
C12_Witness ==
    /\ op.kind = "webhook"
    /\ \E w \in op.inserted :
          /\ w.wallet_sequence = 2
          /\ w.wallet_id = <<"WLT-", w.site_name, "-", "0", "0", "0", "0", "2">>
    /\ \E v \in wallets : v.wallet_id = SuppliedWalletId

\* the wallets of the returned wallet's site other than the returned wallet
OtherWallets == BySite(wallets, response.wallet_data.site_name) \ {response.wallet_data}

\* C13: a webhook creation for a site that holds at least one wallet of
\* another name yields a wallet that is not primary and whose
\* wallet_sequence is the highest sequence of those wallets plus one (2 for
\* the second creation of a fresh site).
C13_LaterWalletNotPrimary ==
    (op.kind = "webhook" /\ response.success /\ OtherWallets # {}) =>
        /\ response.wallet_data \in wallets
        /\ ~response.wallet_data.is_primary_wallet
        /\ \E top \in OtherWallets :
              /\ \A v \in OtherWallets : v.wallet_sequence <= top.wallet_sequence
              /\ response.wallet_data.wallet_sequence = top.wallet_sequence + 1

\* the second creation for a fresh site was made by the webhook
C13_Witness ==
    /\ op.kind = "webhook"
    /\ response.success
    /\ op.deleted = {}
    /\ Cardinality(OtherWallets) = 1
    /\ issued[response.wallet_data.site_name] = <<1, 2>>
    /\ response.wallet_data.wallet_sequence = 2
    /\ ~response.wallet_data.is_primary_wallet

\* both form keys are there
FormUsable(req) == req.form.event # Absent /\ req.form.data_kind # "absent"

\* what a request whose envelope is e must be answered: the error of the
\* first check it fails, else the wallet of its data
AnsweredFor(e) ==
    IF FirstFailedCheck(e) # "" THEN response.error = FirstFailedCheck(e)
    ELSE /\ response.success
         /\ response.wallet_data.site_name = e.data.site_name
         /\ response.wallet_data.wallet_name = e.data.wallet_name

\* the envelope is an object with object data (or none) and the datastore works
Answerable(req, e) == e.kind = "dict" /\ e.data.kind # "nondict" /\ req.fault = "none"

\* C14: a body that decodes as JSON is the envelope, whatever the form
\* fields hold, and an empty decoded value fails with the parse error; a
\* body that does not decode uses the form fields, building {event, data}
\* exactly when both keys are there and data decodes, and failing with a
\* parse error otherwise, whatever the event.
C14_Normalization ==
    op.kind = "webhook" =>
        /\ (request.raw_json /\ request.payload.kind = "falsy") =>
              (~response.success /\ response.error = ErrNoPayload)
        /\ (request.raw_json /\ Answerable(request, request.payload)) =>
              AnsweredFor(request.payload)
        /\ (~request.raw_json /\ ~FormUsable(request)) =>
              (~response.success /\ response.error = ErrNoEventData)
        /\ (~request.raw_json /\ FormUsable(request) /\ request.form.data_kind = "badjson") =>
              (~response.success /\ response.error = ErrFormJson)
        /\ (/\ ~request.raw_json
            /\ FormUsable(request)
            /\ request.form.data_kind # "badjson"
            /\ Answerable(request, DictPayload(request.form.event, request.form.data))) =>
              AnsweredFor(DictPayload(request.form.event, request.form.data))

\* a JSON body was used although the form fields named another wallet
C14_Witness ==
    /\ op.kind = "webhook"
    /\ request.raw_json
    /\ FormUsable(request)
    /\ request.form.data.site_name # request.payload.data.site_name
    /\ response.success
    /\ response.wallet_data.site_name = request.payload.data.site_name

\* C15: after set_primary_wallet(wallet_name, site_name), for any
\* arguments, the named wallet is the one and only primary wallet of site
\* site_name, and the wallets of every other site are as they were.
C15_SetPrimaryExact ==
    [][op'.kind = "set_primary" =>
          /\ {w.name : w \in Primaries(wallets', request'.site_name)} = {request'.wallet_name}
          /\ \A w \in wallets : w.site_name # request'.site_name => w \in wallets']_vars

\* the item's identity number passes the length test of the pipeline
ItemBvnOk(item) == ~Truthy(item.bvn) \/ Len(item.bvn) = BvnLen

\* C16: create_bulk_wallets answers one result per item, in input order; an
\* item fails exactly when its name is taken in the site (before the call,
\* or by an earlier item of the call that succeeded) or its identity number
\* has the wrong length, whatever happened to the other items; a failed item
\* is reported with status "error" and leaves no record, a successful one
\* leaves its record, and no record that existed is removed.
C16_BulkPartialSuccess ==
    [][op'.kind = "bulk" =>
          LET items == request'.wallet_data
              site == request'.site_name
              res == response'
              added == wallets' \ wallets
              ok(i) == /\ ItemBvnOk(items[i])
                       /\ ~NameTaken(wallets, site, items[i].wallet_name, 0)
                       /\ ~\E j \in 1..(i - 1) :
                              /\ res[j].status = "success"
                              /\ items[j].wallet_name = items[i].wallet_name
          IN  /\ Len(res) = Len(items)
              /\ wallets \subseteq wallets'
              /\ Cardinality(added) = Cardinality({i \in 1..Len(res) : res[i].status = "success"})
              /\ \A i \in 1..Len(res) :
                    /\ res[i].wallet_name = items[i].wallet_name
                    /\ res[i].status = (IF ok(i) THEN "success" ELSE "error")
                    /\ res[i].status = "error" =>
                          /\ res[i].error # ""
                          /\ ~\E w \in added : w.name = res[i].name
                    /\ res[i].status = "success" =>
                          \E w \in added :
                              /\ w.name = res[i].name
                              /\ w.site_name = site
                              /\ w.wallet_name = items[i].wallet_name
                              /\ w.wallet_id = res[i].wallet_id]_vars

\* a call whose first item failed on its identity number and whose second
\* item was created
C16_Witness ==
    /\ op.kind = "bulk"
    /\ Len(response) = 2
    /\ response[1].status = "error"
    /\ response[1].error = ErrBvn
    /\ response[2].status = "success"
    /\ \E w \in op.inserted : w.name = response[2].name /\ w \in wallets

\* the wallets of the pair that the request announces
AnnouncedRows(tbl, req) ==
    PairRows(tbl, Envelope(req).data.site_name, Envelope(req).data.wallet_name)

\* C18: in a re-announcement of an existing wallet during which the insert
\* fails or the process ends after the delete, the existing wallet is gone
\* and stays gone (nothing else changes, nothing is inserted), so the site
\* has no wallet of that name; when the handler returns, it answers
\* success = false with an error.
C18_DeleteNotRolledBack ==
    [][(/\ op'.kind = "webhook"
        /\ request'.fault \in {"insert", "stop"}
        /\ AnnouncedRows(wallets, request') # {}) =>
           /\ AnnouncedRows(wallets', request') = {}
           /\ wallets' = wallets \ AnnouncedRows(wallets, request')
           /\ op'.deleted = AnnouncedRows(wallets, request')
           /\ op'.inserted = {}
           /\ request'.fault = "insert" =>
                 (~response'.success /\ response'.error # "" /\ ~response'.escaped)
           /\ request'.fault = "stop" => response' = NoReply]_vars

\* the process ended after the delete of a re-announced wallet whose site
\* keeps another wallet
C18_Witness ==
    /\ op.kind = "webhook"
    /\ request.fault = "stop"
    /\ op.deleted # {}
    /\ response = NoReply
    /\ AnnouncedRows(wallets, request) = {}
    /\ BySite(wallets, Envelope(request).data.site_name) # {}

\* C19: no log entry of a webhook request that carries an identity number
\* holds a digit of it; every log title has at most 130 characters and
\* every log message at most 3000 characters plus the truncation mark.
C19_LogMasksIdentity ==
    op.kind = "webhook" =>
        \A i \in 1..Len(op.log) :
            /\ Len(op.log[i].title) <= 130
            /\ op.log[i].message.size <= 3000 + Len("... (truncated)")
            /\ BodyBvn(request) # EmptyText =>
                  StripNonDigits(op.log[i].message.bvn) = << >>

\* the length bounds alone
LogBounded ==
    op.kind = "webhook" =>
        \A i \in 1..Len(op.log) :
            /\ Len(op.log[i].title) <= 130
            /\ op.log[i].message.size <= 3000 + Len("... (truncated)")

\* the parsed-payload entry shows the mask where the identity number stood
PayloadEntryMasked ==
    op.kind = "webhook" =>
        \A i \in 1..Len(op.log) :
            op.log[i].title = "Parsed Payload" =>
                StripNonDigits(op.log[i].message.bvn) = << >>

\* the error of the first phase that rejects document doc, in the order
\* pre-save (primary conflict, identity-number length), then validate (name)
FirstErrorPreSaveFirst(doc) ==
    IF doc.is_primary_wallet /\ \E w \in Primaries(wallets, doc.site_name) : w.name # doc.name
    THEN ErrPrimary
    ELSE IF Truthy(doc.bvn) /\ Len(doc.bvn) # 11 THEN ErrBvn
    ELSE IF NameTaken(wallets, doc.site_name, doc.wallet_name, doc.name) THEN ErrDuplicate
    ELSE ""

\* C20: an insert runs pre-insert (sequence, wallet_id), then pre-save
\* (primary conflict, identity-number length, auto-primary), then validate
\* (name uniqueness), so a rejected insert reports the error of the first
\* phase in that order that rejects it and an accepted one has its sequence
\* and wallet_id; an update leaves wallet_sequence and wallet_id as they
\* were.  (A rejected insert leaves the store as it was, so the phases saw
\* the wallets of this state.)
C20_PhaseOrder ==
    /\ (op.kind = "insert" /\ response # "") =>
          response = FirstErrorPreSaveFirst(request)
    /\ (op.kind = "insert" /\ response = "") =>
          \A w \in op.inserted : w.wallet_sequence >= 1 /\ Truthy(w.wallet_id)
    /\ op.kind = "save" =>
          \E w \in wallets :
              /\ w.name = request.name
              /\ w.wallet_sequence = request.wallet_sequence
              /\ w.wallet_id = request.wallet_id

\* the error of the first phase that rejects document doc, in the order
\* validate (name), then pre-save (primary conflict, identity-number length)
FirstErrorValidateFirst(doc) ==
    IF NameTaken(wallets, doc.site_name, doc.wallet_name, doc.name) THEN ErrDuplicate
    ELSE IF doc.is_primary_wallet
            /\ \E w \in Primaries(wallets, doc.site_name) : w.name # doc.name
    THEN ErrPrimary
    ELSE IF Truthy(doc.bvn) /\ Len(doc.bvn) # 11 THEN ErrBvn
    ELSE ""

\* C20 (amended): an insert runs pre-insert (sequence, wallet_id), then
\* validate (name uniqueness), then pre-save (primary conflict,
\* identity-number length, auto-primary): a rejected insert reports the
\* error of the first phase in that order that rejects it, the store
\* unchanged, and an accepted one carries the site's next sequence and a
\* wallet_id; an update (accepted or rejected) leaves wallet_sequence and
\* wallet_id as they were and its rejection follows the same order.
C20_PhaseOrderActual ==
    /\ (op.kind = "insert" /\ response # "") =>
          /\ response = FirstErrorValidateFirst(request)
          /\ op.inserted = {}
    /\ (op.kind = "insert" /\ response = "") =>
          /\ FirstErrorValidateFirst(
                 [request EXCEPT !.name = (CHOOSE w \in op.inserted : TRUE).name]) = ""
          /\ \A w \in op.inserted :
                /\ w.wallet_sequence >= 1
                /\ Truthy(w.wallet_id)
                /\ \A v \in BySite(wallets, w.site_name) \ {w} :
                      v.wallet_sequence < w.wallet_sequence
    /\ op.kind = "save" =>
          /\ \E w \in wallets :
                /\ w.name = request.name
                /\ w.wallet_sequence = request.wallet_sequence
                /\ w.wallet_id = request.wallet_id
          /\ response # "" => response = FirstErrorValidateFirst(request)

\* a rejected insert that both validate and pre-save would reject
C20_Witness ==
    /\ op.kind = "insert"
    /\ response = ErrDuplicate
    /\ FirstErrorPreSaveFirst(request) \in {ErrPrimary, ErrBvn}

\* an update that went through, sequence and wallet_id kept
C20_UpdateWitness ==
    /\ op.kind = "save"
    /\ response = ""
    /\ \E w \in wallets : w.name = request.name /\ w.wallet_sequence >= 1

\* the error of the first phase that rejects doc against the rows tbl, in
\* the order validate, then pre-save; "" when every phase passes
FirstErrorOn(tbl, doc) ==
    IF NameTaken(tbl, doc.site_name, doc.wallet_name, doc.name) THEN ErrDuplicate
    ELSE IF doc.is_primary_wallet
            /\ \E w \in Primaries(tbl, doc.site_name) : w.name # doc.name
    THEN ErrPrimary
    ELSE IF Truthy(doc.bvn) /\ Len(doc.bvn) # 11 THEN ErrBvn
    ELSE ""

\* requests a and b both wrote a wallet of one site, every hook of each
\* having read the site before the other wrote
Interleaved(a, b) ==
    /\ a # b
    /\ inflight[a].pc = "done" /\ inflight[b].pc = "done"
    /\ ~inflight[a].late /\ ~inflight[b].late
    /\ inflight[a].doc.site_name = inflight[b].doc.site_name
    /\ BySite(inflight[a].seen, inflight[a].doc.site_name)
          = BySite(inflight[b].seen, inflight[b].doc.site_name)

\* C17: when two wallet creations of one site are interleaved, each one's
\* reads of the site's wallets coming before the other's write, both rows
\* are stored with the same wallet_sequence (and the same derived
\* wallet_id), and both are primary when the site had no wallet at the
\* time of the reads; no phase of either writer rejects because of the
\* other: a writer whose reads all came before the other's write fails
\* only with the error the rows it first saw call for, so never when the
\* only clash is with the concurrent writer.
C17_RaceOutcome ==
    /\ \A a, b \in Writers :
          Interleaved(a, b) =>
              /\ inflight[a].doc \in wallets /\ inflight[b].doc \in wallets
              /\ inflight[a].doc.name # inflight[b].doc.name
              /\ inflight[a].doc.wallet_sequence = inflight[b].doc.wallet_sequence
              /\ inflight[a].doc.wallet_id = inflight[b].doc.wallet_id
              /\ BySite(inflight[a].seen, inflight[a].doc.site_name) = {} =>
                    inflight[a].doc.is_primary_wallet /\ inflight[b].doc.is_primary_wallet
    /\ \A a \in Writers :
          ~inflight[a].late =>
              /\ inflight[a].pc = "failed" =>
                    inflight[a].err = FirstErrorOn(inflight[a].seen, inflight[a].doc)
              /\ inflight[a].pc \in {"checked", "done"} =>
                    FirstErrorOn(inflight[a].seen, inflight[a].doc) = ""

\* two interleaved creations with different wallet names left an empty
\* site with two wallets of the same wallet_sequence, both primary
C17_Witness ==
    \E a, b \in Writers :
        /\ Interleaved(a, b)
        /\ inflight[a].doc.wallet_name # inflight[b].doc.wallet_name
        /\ \E x, y \in BySite(wallets, inflight[a].doc.site_name) :
              /\ x.name = inflight[a].doc.name /\ y.name = inflight[b].doc.name
              /\ x.wallet_sequence = y.wallet_sequence
              /\ x.is_primary_wallet /\ y.is_primary_wallet

\* two interleaved creations left a site that had a wallet with two more
\* wallets of the same wallet_sequence, neither primary
C17_LaterWitness ==
    \E a, b \in Writers :
        /\ Interleaved(a, b)
        /\ BySite(inflight[a].seen, inflight[a].doc.site_name) # {}
        /\ \E x, y \in BySite(wallets, inflight[a].doc.site_name) :
              /\ x.name = inflight[a].doc.name /\ y.name = inflight[b].doc.name
              /\ x.wallet_sequence = y.wallet_sequence
              /\ ~x.is_primary_wallet /\ ~y.is_primary_wallet

\* C21: after any sequential history of webhook creations and
\* re-announcements every site that has a wallet has exactly one primary
\* wallet; re-announcing the primary while the site has other wallets does
\* not leave the site without a primary.
C21_ExactlyOnePrimary ==
    \A s \in Sites :
        BySite(wallets, s) # {} => Cardinality(Primaries(wallets, s)) = 1

\* the half that stands: announcements never leave a site with two
\* primaries, and a site that had a primary is without one only after an
\* announcement that deleted its primary wallet
PrimaryLostOnlyByReplace ==
    [][\A s \in Sites :
          /\ Cardinality(Primaries(wallets', s)) <= 1
          /\ (Primaries(wallets, s) # {} /\ Primaries(wallets', s) = {}) =>
                \E w \in op'.deleted : w.site_name = s /\ w.is_primary_wallet]_vars

\* the primary of a site with another wallet was re-announced and the site
\* is left with wallets and no primary
PrimaryLost ==
    /\ op.kind = "webhook"
    /\ \E w \in op.deleted :
          /\ w.is_primary_wallet
          /\ Cardinality(BySite(wallets, w.site_name)) >= 2
          /\ Primaries(wallets, w.site_name) = {}

=============================================================================
